---- MODULE Spec2Model ----
(***************************************************************************)
(* Hybrid retrieval engine of backend/src/api/v1/vectordb.py:              *)
(* SPLADESearch (tokenizer, query expansion, BM25 index and scoring) and   *)
(* HybridVectorStore (corpus store, dense / sparse / hybrid search,        *)
(* add_documents, clear) with the asyncio suspension points of the code.   *)
(*                                                                         *)
(* Numbers.  Python floats are modelled in fixed point: a score x is the   *)
(* integer x * S (S = 10^4); sparse display scores, which the code rounds  *)
(* to two decimals, are kept in hundredths.  A text is a tuple of one-     *)
(* character strings so that lower(), re.sub, split() and the substring    *)
(* test `in` are computed character by character as the code does.         *)
(***************************************************************************)
EXTENDS Integers, Sequences, FiniteSets, TLC

(***************************************************************************)
(* Bounds of the model                                                     *)
(***************************************************************************)
MaxDocs == 2        \* add_documents is not called beyond this corpus size
MaxAdds == 2        \* number of add_documents calls in one behaviour
MaxTopK == 2        \* largest top_k a request asks for
MaxCorpus == 3      \* largest corpus a store is constructed over
MaxFits == 2        \* number of fit calls on one index object
MaxWords == 6       \* longest text given to the chunkers, in words (but for the 500-word text)
MaxChunks == 9      \* a chunking loop is followed for at most this many iterations

S == 10000          \* fixed-point unit: 1.0 is S

None == "None"

(***************************************************************************)
(* Generic helpers                                                         *)
(***************************************************************************)
Min(a, b) == IF a <= b THEN a ELSE b
Max(a, b) == IF a >= b THEN a ELSE b

RECURSIVE SumSeq(_)
SumSeq(s) == IF s = <<>> THEN 0 ELSE Head(s) + SumSeq(Tail(s))

Range(s) == {s[i] : i \in DOMAIN s}

\* s[:n] for n >= 0
Take(s, n) == SubSeq(s, 1, Min(n, Len(s)))

\* zip(a, b, ...) stops at the shortest argument
ZipLen(lens) == CHOOSE m \in lens : \A k \in lens : m <= k

\* number of occurrences of x in s (Counter(s)[x])
Count(s, x) == Cardinality({i \in DOMAIN s : s[i] = x})

\* round(num / den) to the nearest integer, ties to even (Python round)
RoundDiv(num, den) ==
    LET q == num \div den
        r == num % den
    IN  IF 2 * r < den THEN q
        ELSE IF 2 * r > den THEN q + 1
        ELSE IF q % 2 = 0 THEN q ELSE q + 1

\* results.sort(key=lambda x: x["score"], reverse=True): stable, descending.
\* Insertion sort that puts a record after every record with a score >= its
\* own, so records with equal scores keep the order they had in the list.
RECURSIVE InsertDesc(_, _)
InsertDesc(sorted, x) ==
    IF sorted = <<>> THEN <<x>>
    ELSE IF Head(sorted).score >= x.score
         THEN <<Head(sorted)>> \o InsertDesc(Tail(sorted), x)
         ELSE <<x>> \o sorted

RECURSIVE SortDescFrom(_, _)
SortDescFrom(acc, rest) ==
    IF rest = <<>> THEN acc
    ELSE SortDescFrom(InsertDesc(acc, Head(rest)), Tail(rest))

SortDesc(s) == SortDescFrom(<<>>, s)

(***************************************************************************)
(* Text: characters, str.lower, str.split, str.strip, substring            *)
(***************************************************************************)
UpperToLower == [c \in {"A", "C", "E"} |->
                    IF c = "A" THEN "a" ELSE IF c = "C" THEN "c" ELSE "e"]

LowerChar(c) == IF c \in DOMAIN UpperToLower THEN UpperToLower[c] ELSE c

\* str.lower()
Lower(t) == [i \in 1..Len(t) |-> LowerChar(t[i])]

IsSpace(c) == c = " "
\* \w of the regular expression: letters, digits, underscore
IsWordChar(c) == c \in {"a", "b", "c", "d", "e", "f", "g", "h", "x",
                        "A", "C", "E", "_"}

\* re.sub(r'[^\w\s\-]', ' ', text)
StripPunct(t) ==
    [i \in 1..Len(t) |->
        IF IsWordChar(t[i]) \/ IsSpace(t[i]) \/ t[i] = "-" THEN t[i] ELSE " "]

\* str.split(): the maximal runs of non-whitespace characters
RECURSIVE SplitFrom(_, _, _, _)
SplitFrom(t, i, cur, out) ==
    IF i > Len(t) THEN (IF cur = <<>> THEN out ELSE Append(out, cur))
    ELSE IF IsSpace(t[i])
         THEN SplitFrom(t, i + 1, <<>>, IF cur = <<>> THEN out ELSE Append(out, cur))
         ELSE SplitFrom(t, i + 1, Append(cur, t[i]), out)

Split(t) == SplitFrom(t, 1, <<>>, <<>>)

\* str.split(","): every piece between commas, empty pieces included
RECURSIVE SplitCommaFrom(_, _, _, _)
SplitCommaFrom(t, i, cur, out) ==
    IF i > Len(t) THEN Append(out, cur)
    ELSE IF t[i] = ","
         THEN SplitCommaFrom(t, i + 1, <<>>, Append(out, cur))
         ELSE SplitCommaFrom(t, i + 1, Append(cur, t[i]), out)

SplitComma(t) == SplitCommaFrom(t, 1, <<>>, <<>>)

\* str.strip(): drop leading and trailing whitespace
RECURSIVE LStrip(_)
LStrip(t) == IF t # <<>> /\ IsSpace(Head(t)) THEN LStrip(Tail(t)) ELSE t

RECURSIVE RStrip(_)
RStrip(t) == IF t # <<>> /\ IsSpace(t[Len(t)])
             THEN RStrip(SubSeq(t, 1, Len(t) - 1)) ELSE t

Strip(t) == RStrip(LStrip(t))

\* `sub in text`
IsSubstring(sub, t) ==
    \E i \in 0..(Len(t) - Len(sub)) : SubSeq(t, i + 1, i + Len(sub)) = sub

(***************************************************************************)
(* SPLADESearch._tokenize                                                  *)
(***************************************************************************)
\* [t for t in tokens if len(t) > 1]
RECURSIVE DropShort(_)
DropShort(tokens) ==
    IF tokens = <<>> THEN <<>>
    ELSE IF Len(Head(tokens)) > 1 THEN <<Head(tokens)>> \o DropShort(Tail(tokens))
         ELSE DropShort(Tail(tokens))

Tokenize(text) == DropShort(Split(StripPunct(Lower(text))))

(***************************************************************************)
(* SPLADESearch: __init__, _expand_query, fit, score, search               *)
(***************************************************************************)
\* k1 = 1.5 and b = 0.75 as fractions <<numerator, denominator>>
k1 == <<3, 2>>
b == <<3, 4>>

\* weight 2.0 of an original query term, in units of 1/S
OriginalWeight == 2 * S

\* weight 1.0 / (1 + 0.15 * i) of the expansion candidate at position i
ExpansionWeight(i) == (20 * S) \div (20 + 3 * i)

\* weighted_terms[:20]
MaxTerms == 20

\* math.log(n) * S for the integers the idf formula meets
LnTable == <<0, 6931, 10986, 13863, 16094, 17918, 19459, 20794, 21972,
             23026, 23979, 24849, 25649, 26391, 27081, 27726, 28332, 28904>>
Ln(n) == LnTable[n]

\* math.log((n_docs - df + 0.5) / (df + 0.5) + 1)
\*   = log((n_docs + 1) / (df + 0.5)) = log(2 n_docs + 2) - log(2 df + 1)
IdfValue(n_docs, df) == Ln(2 * n_docs + 2) - Ln(2 * df + 1)

\* SPLADESearch.__init__: the empty index.  avg_doc_len is the fraction
\* <<sum of doc_lens, n_docs>>, and <<0, 1>> for 0.0.
NewSplade ==
    [n_docs |-> 0, doc_lens |-> <<>>, doc_freqs |-> <<>>,
     avg_doc_len |-> <<0, 1>>, idf |-> <<>>]

\* [(t, 2.0) for t in original_tokens]
OriginalTerms(query) ==
    LET toks == Tokenize(query)
    IN  [i \in 1..Len(toks) |-> [term |-> toks[i], weight |-> OriginalWeight]]

\* the loop `for term, weight in original_terms: if term not in seen_terms`
RECURSIVE DedupTerms(_, _)
DedupTerms(terms, out) ==
    IF terms = <<>> THEN out
    ELSE IF \E j \in DOMAIN out : out[j].term = Head(terms).term
         THEN DedupTerms(Tail(terms), out)
         ELSE DedupTerms(Tail(terms), Append(out, Head(terms)))

\* the loop `for i, term in enumerate(terms)`: i is the position of the
\* candidate in the collaborator's list (0-based), skipped candidates included
RECURSIVE AddExpanded(_, _, _)
AddExpanded(cands, i, out) ==
    IF i >= Len(cands) THEN out
    ELSE LET term == Lower(Strip(cands[i + 1]))
         IN  IF term # <<>> /\ ~ \E j \in DOMAIN out : out[j].term = term
             THEN AddExpanded(cands, i + 1,
                     Append(out, [term |-> term, weight |-> ExpansionWeight(i)]))
             ELSE AddExpanded(cands, i + 1, out)

\* _expand_query.  outcome is what the term-suggestion collaborator did:
\* status "nokey" (OPENAI_API_KEY not set), "error" (an exception, or a
\* response status other than 200), or "ok" with the content of the response.
ExpandQuery(query, outcome) ==
    IF outcome.status # "ok" THEN OriginalTerms(query)
    ELSE LET expanded_text == Strip(outcome.content)
             pieces == SplitComma(expanded_text)
             terms == [i \in 1..Len(pieces) |-> Lower(Strip(pieces[i]))]
             weighted == AddExpanded(terms, 0, DedupTerms(OriginalTerms(query), <<>>))
         IN  Take(weighted, MaxTerms)

\* fit(documents, doc_ids) on the index object sp.  n_docs, doc_lens and
\* doc_freqs are rebuilt; idf is updated in place for the terms of doc_freqs.
Fit(sp, documents, doc_ids) ==
    LET n == Len(documents)
        z == ZipLen({Len(documents), Len(doc_ids)})
        toks == [i \in 1..z |-> Tokenize(documents[i])]
        lens == [i \in 1..z |-> Len(toks[i])]
        vocab == UNION {Range(toks[i]) : i \in 1..z}
        df == [t \in vocab |-> Cardinality({i \in 1..z : t \in Range(toks[i])})]
        total == SumSeq(lens)
    IN  [n_docs |-> n,
         doc_lens |-> lens,
         doc_freqs |-> df,
         avg_doc_len |-> IF n > 0 /\ total > 0 THEN <<total, n>> ELSE <<0, 1>>,
         idf |-> [t \in (DOMAIN sp.idf) \cup vocab |->
                     IF t \in vocab THEN IdfValue(n, df[t]) ELSE sp.idf[t]]]

\* TermScore giving a phrase term half of the phrase bonus when the document
\* holds every word of the phrase without holding the phrase
TermScorePartialCredit(sp, qt, doc_len, doc_tokens, doc_text) ==
    LET term_tokens == Split(qt.term)
        tf == Count(doc_tokens, qt.term)
    IN  IF Len(term_tokens) > 1
        THEN [raised |-> FALSE,
              score |-> IF IsSubstring(qt.term, Lower(doc_text))
                        THEN qt.weight * 2
                        ELSE IF Range(term_tokens) \subseteq Range(doc_tokens)
                             THEN qt.weight ELSE 0]
        ELSE IF qt.term \notin DOMAIN sp.idf THEN [raised |-> FALSE, score |-> 0]
        ELSE IF tf = 0 THEN [raised |-> FALSE, score |-> 0]
        ELSE IF sp.avg_doc_len[1] = 0
             THEN [raised |-> TRUE, score |-> 0]
        ELSE LET total == sp.avg_doc_len[1]
                 n == sp.avg_doc_len[2]
                 numerator == tf * (k1[1] + k1[2]) * b[2] * total
                 denominator == tf * k1[2] * b[2] * total
                                + k1[1] * ((b[2] - b[1]) * total + b[1] * doc_len * n)
                 bm25 == IF denominator > 0
                         THEN (sp.idf[qt.term] * numerator) \div denominator
                         ELSE 0
             IN  [raised |-> FALSE, score |-> (bm25 * qt.weight) \div S]

\* One pass of the loop `for term, query_weight in query_terms` of score.
\* acc is [raised, score]; doc_idx counts from 1.
TermScore(sp, qt, doc_len, doc_tokens, doc_text) ==
    LET term_tokens == Split(qt.term)
        tf == Count(doc_tokens, qt.term)
    IN  IF Len(term_tokens) > 1
        THEN [raised |-> FALSE,
              score |-> IF IsSubstring(qt.term, Lower(doc_text))
                        THEN qt.weight * 2 ELSE 0]
        ELSE IF qt.term \notin DOMAIN sp.idf THEN [raised |-> FALSE, score |-> 0]
        ELSE IF tf = 0 THEN [raised |-> FALSE, score |-> 0]
        ELSE IF sp.avg_doc_len[1] = 0
             THEN [raised |-> TRUE, score |-> 0]   \* doc_len / 0.0
        ELSE LET total == sp.avg_doc_len[1]
                 n == sp.avg_doc_len[2]
                 \* tf (k1 + 1) / (tf + k1 (1 - b + b doc_len n / total)),
                 \* both sides multiplied by k1[2] b[2] total
                 numerator == tf * (k1[1] + k1[2]) * b[2] * total
                 denominator == tf * k1[2] * b[2] * total
                                + k1[1] * ((b[2] - b[1]) * total + b[1] * doc_len * n)
                 bm25 == IF denominator > 0
                         THEN (sp.idf[qt.term] * numerator) \div denominator
                         ELSE 0
             IN  [raised |-> FALSE, score |-> (bm25 * qt.weight) \div S]

RECURSIVE ScoreTerms(_, _, _, _, _, _)
ScoreTerms(sp, query_terms, doc_len, doc_tokens, doc_text, acc) ==
    IF query_terms = <<>> \/ acc.raised THEN acc
    ELSE LET r == TermScore(sp, Head(query_terms), doc_len, doc_tokens, doc_text)
         IN  ScoreTerms(sp, Tail(query_terms), doc_len, doc_tokens, doc_text,
                        [raised |-> r.raised, score |-> acc.score + r.score])

\* score(query_terms, doc_idx, doc_text) -> total score (term_scores, which
\* only feeds the matched_terms display list, is left out)
Score(sp, query_terms, doc_idx, doc_text) ==
    LET doc_tokens == Tokenize(doc_text)
        doc_len == IF doc_idx <= Len(sp.doc_lens) THEN sp.doc_lens[doc_idx]
                   ELSE Len(doc_tokens)
    IN  ScoreTerms(sp, query_terms, doc_len, doc_tokens, doc_text,
                   [raised |-> FALSE, score |-> 0])

\* SpladeCollect with `if score >= 0` in place of `if score > 0`
RECURSIVE SpladeCollectKeepsZero(_, _, _, _, _, _)
SpladeCollectKeepsZero(sp, query_terms, documents, doc_ids, idx, acc) ==
    IF idx > ZipLen({Len(documents), Len(doc_ids)}) \/ acc.raised THEN acc
    ELSE LET r == Score(sp, query_terms, idx, documents[idx])
         IN  SpladeCollectKeepsZero(sp, query_terms, documents, doc_ids, idx + 1,
                [raised |-> r.raised,
                 results |-> IF ~r.raised /\ r.score >= 0
                             THEN Append(acc.results,
                                    [idx |-> idx, doc_id |-> doc_ids[idx],
                                     score |-> r.score])
                             ELSE acc.results])

\* the scoring loop of SPLADESearch.search over zip(documents, doc_ids)
RECURSIVE SpladeCollect(_, _, _, _, _, _)
SpladeCollect(sp, query_terms, documents, doc_ids, idx, acc) ==
    IF idx > ZipLen({Len(documents), Len(doc_ids)}) \/ acc.raised THEN acc
    ELSE LET r == Score(sp, query_terms, idx, documents[idx])
         IN  SpladeCollect(sp, query_terms, documents, doc_ids, idx + 1,
                [raised |-> r.raised,
                 results |-> IF ~r.raised /\ r.score > 0
                             THEN Append(acc.results,
                                    [idx |-> idx, doc_id |-> doc_ids[idx],
                                     score |-> r.score])
                             ELSE acc.results])

\* SPLADESearch.search after the await of _expand_query has returned
SpladeSearch(sp, query_terms, documents, doc_ids, top_k) ==
    LET c == SpladeCollect(sp, query_terms, documents, doc_ids, 1,
                           [raised |-> FALSE, results |-> <<>>])
    IN  [raised |-> c.raised, results |-> Take(SortDesc(c.results), top_k)]

(***************************************************************************)
(* Inputs of the model                                                     *)
(***************************************************************************)
\* chunk texts: "Ab cd", "cd, ef x"
Texts == { <<"A", "b", " ", "c", "d">>,
           <<"c", "d", ",", " ", "e", "f", " ", "x">> }

\* queries: "CD ef"
Queries == { <<"C", "d", " ", "e", "f">> }

\* contents the term-suggestion collaborator answers with: "ab, cd ef,,gh"
Suggestions == { <<"a", "b", ",", " ", "c", "d", " ", "e", "f", ",", ",", "g", "h">> }

\* embedding vectors: unit vectors of the plane at 0, 60, 120 and 180 degrees
Vecs == {"v0", "v1", "v2", "v3"}
Angle == [v \in Vecs |-> IF v = "v0" THEN 0 ELSE IF v = "v1" THEN 1
                          ELSE IF v = "v2" THEN 2 ELSE 3]
CosTable == <<S, S \div 2, 0 - (S \div 2), 0 - S>>

\* np.dot(u, v) / (np.linalg.norm(u) * np.linalg.norm(v))
Cosine(u, v) ==
    LET d == IF Angle[u] >= Angle[v] THEN Angle[u] - Angle[v] ELSE Angle[v] - Angle[u]
    IN  CosTable[d + 1]

\* mode strings a request carries; "fuzzy" is none of the three documented ones
Modes == {"dense", "sparse", "hybrid", "fuzzy"}

\* dense_weight values a request carries (0.0, 0.7, 1.0)
Weights == {0, 7000, S}

TopKs == 1..MaxTopK

\* ids a caller passes to add_documents
CallerIds == {"x"}

\* the value uuid.uuid4() returns in the n-th call of add_documents
UuidNames == <<"u1", "u2", "u3", "u4", "u5", "u6">>

\* a field that holds None where the code expects a number
NoScore == 0 - 1

(***************************************************************************)
(* HybridVectorStore: score normalisation                                  *)
(***************************************************************************)
\* _normalize_dense_score: max(0.0, min(1.0, (score + 1) / 2 if score < 0 else score))
NormalizeDenseScore(score) ==
    Max(0, Min(S, IF score < 0 THEN (score + S) \div 2 ELSE score))

\* max_possible = 30.0 and the factor 3.0 of _normalize_sparse_score
MaxPossible == 30
SparseFactor == 3

\* _normalize_sparse_score: round(min(score * 3.0, max_possible), 2)
NormalizeSparseScore(score) ==
    IF score <= 0 THEN 0
    ELSE RoundDiv(Min(score * SparseFactor, MaxPossible * S), 100) * 100

(***************************************************************************)
(* HybridVectorStore.search_dense after `await self.get_embedding(query)`  *)
(***************************************************************************)
DenseRecord(id, text, native) ==
    [id |-> id, text |-> text,
     dense_score |-> NormalizeDenseScore(native),
     sparse_score |-> NoScore,
     score |-> NormalizeDenseScore(native)]

\* query_points(query=..., limit=top_k): the top_k points by cosine score
QdrantQuery(points, query_embedding, top_k) ==
    LET scored == [i \in 1..Len(points) |->
                      [id |-> points[i].id, text |-> points[i].text,
                       score |-> Cosine(query_embedding, points[i].vector)]]
    IN  Take(SortDesc(scored), top_k)

\* the fallback loop `for doc in self.documents: if doc["embedding"] is not None`
RECURSIVE InMemoryDense(_, _, _)
InMemoryDense(docs, query_embedding, acc) ==
    IF docs = <<>> THEN acc
    ELSE LET doc == Head(docs)
         IN  InMemoryDense(Tail(docs), query_embedding,
                IF doc.embedding # None
                THEN Append(acc, DenseRecord(doc.id, doc.text,
                                    Cosine(query_embedding, doc.embedding)))
                ELSE acc)

\* the loop `for r in qdrant_response.points`: one result per point of the
\* response, in the order of the response
QdrantResults(hits) ==
    [i \in 1..Len(hits) |-> DenseRecord(hits[i].id, hits[i].text, hits[i].score)]

\* The part of search_dense that runs after the embedding call returned.
\* oracle is what the ANN oracle does: "ok", or "fail" after the loop over
\* its response has appended `read` results (read = 0: the call itself
\* failed).  With use_qdrant false the oracle is not asked.
DenseAfterEmbedding(docs, use_q, qd, query_embedding, top_k, oracle) ==
    IF query_embedding = None THEN <<>>
    ELSE LET hits == IF qd.exists THEN QdrantQuery(qd.points, query_embedding, top_k)
                     ELSE <<>>
             fromQdrant == QdrantResults(hits)
         IN  IF use_q /\ oracle.status = "ok" /\ qd.exists
             THEN fromQdrant
             ELSE LET partial == IF use_q /\ qd.exists
                                 THEN Take(fromQdrant, oracle.read) ELSE <<>>
                  IN  Take(SortDesc(InMemoryDense(docs, query_embedding, partial)),
                           top_k)

(***************************************************************************)
(* HybridVectorStore.search_sparse after `await self.splade.search(...)`   *)
(***************************************************************************)
\* The loop `for r in splade_results: doc = self.documents[r["idx"]]` reads
\* the documents list as it is when the coroutine resumes; an idx beyond its
\* end raises IndexError.
SparseAfterExpansion(sp, docs_now, texts, doc_ids, query_terms, top_k) ==
    LET found == SpladeSearch(sp, query_terms, texts, doc_ids, Len(texts))
        hits == found.results
    IN  IF found.raised \/ \E i \in DOMAIN hits : hits[i].idx > Len(docs_now)
        THEN [raised |-> TRUE, results |-> <<>>]
        ELSE [raised |-> FALSE,
              results |->
                Take([i \in 1..Len(hits) |->
                        LET doc == docs_now[hits[i].idx]
                        IN  [id |-> doc.id, text |-> doc.text,
                             dense_score |-> NoScore,
                             sparse_score |-> NormalizeSparseScore(hits[i].score),
                             score |-> NormalizeSparseScore(hits[i].score)]],
                     top_k)]

(***************************************************************************)
(* HybridVectorStore.search_hybrid after both sub-searches returned        *)
(***************************************************************************)
\* {r["id"]: r[field] for r in results}: a later entry replaces an earlier one
MapGet(results, id, field, default) ==
    LET at == {i \in DOMAIN results : results[i].id = id}
    IN  IF at = {} THEN default
        ELSE results[CHOOSE i \in at : \A j \in at : j <= i][field]

IdsOf(results) == {results[i].id : i \in DOMAIN results}

\* max(sparse_scores_map.values()) if sparse_scores_map else 1.0
MaxSparse(sparse_results) ==
    IF sparse_results = <<>> THEN S
    ELSE LET vals == {MapGet(sparse_results, id, "sparse_score", 0) :
                         id \in IdsOf(sparse_results)}
         IN  CHOOSE m \in vals : \A v \in vals : v <= m

\* score / max_sparse if max_sparse > 0 else 0.0 (both are whole hundredths)
SparseNormalized(sparse_results, id) ==
    LET m == MaxSparse(sparse_results)
    IN  IF id \notin IdsOf(sparse_results) THEN 0
        ELSE IF m > 0
             THEN ((MapGet(sparse_results, id, "sparse_score", 0) \div 100) * S)
                    \div (m \div 100)
             ELSE 0

\* synergy boost 0.1 * min(d_score, s_score_norm), as a divisor
SynergyDivisor == 10

\* HybridScore with the weights 0.7 and 0.3 of the docstring in place of
\* dense_weight and 1 - dense_weight
HybridScoreFixedWeights(dense_results, sparse_results, id, dense_weight) ==
    LET d_score == MapGet(dense_results, id, "dense_score", 0)
        s_score_raw == MapGet(sparse_results, id, "sparse_score", 0)
        s_score_norm == SparseNormalized(sparse_results, id)
        weighted == d_score * 7000 + s_score_norm * 3000
        synergy_boost == (Min(d_score, s_score_norm) * S) \div SynergyDivisor
    IN  IF d_score > 0 /\ s_score_raw > 0
        THEN RoundDiv(Min(weighted + synergy_boost, S * S), S)
        ELSE RoundDiv(weighted, S)

\* HybridScore with the flat boost +0.1 of the comment in place of
\* 0.1 * min(d_score, s_score_norm)
HybridScoreFlatBoost(dense_results, sparse_results, id, dense_weight) ==
    LET d_score == MapGet(dense_results, id, "dense_score", 0)
        s_score_raw == MapGet(sparse_results, id, "sparse_score", 0)
        s_score_norm == SparseNormalized(sparse_results, id)
        weighted == d_score * dense_weight + s_score_norm * (S - dense_weight)
        synergy_boost == (S * S) \div SynergyDivisor
    IN  IF d_score > 0 /\ s_score_raw > 0
        THEN RoundDiv(Min(weighted + synergy_boost, S * S), S)
        ELSE RoundDiv(weighted, S)

\* hybrid score of one document id, in units of 1/S, rounded to 4 decimals
HybridScore(dense_results, sparse_results, id, dense_weight) ==
    LET sparse_weight == S - dense_weight
        d_score == MapGet(dense_results, id, "dense_score", 0)
        s_score_raw == MapGet(sparse_results, id, "sparse_score", 0)
        s_score_norm == SparseNormalized(sparse_results, id)
        weighted == d_score * dense_weight + s_score_norm * sparse_weight
        has_dense == id \in IdsOf(dense_results) /\ d_score > 0
        has_sparse == id \in IdsOf(sparse_results) /\ s_score_raw > 0
        synergy_boost == (Min(d_score, s_score_norm) * S) \div SynergyDivisor
    IN  IF has_dense /\ has_sparse
        THEN RoundDiv(Min(weighted + synergy_boost, S * S), S)
        ELSE RoundDiv(weighted, S)

\* the loop `for doc_id in all_doc_ids`; order is the sequence in which the
\* set all_doc_ids is iterated
RECURSIVE Combine(_, _, _, _, _, _)
Combine(docs_now, dense_results, sparse_results, dense_weight, order, acc) ==
    IF order = <<>> THEN acc
    ELSE LET doc_id == Head(order)
             local == {i \in DOMAIN docs_now : docs_now[i].id = doc_id}
             inDense == doc_id \in IdsOf(dense_results)
             first(res) == CHOOSE i \in DOMAIN res :
                              /\ res[i].id = doc_id
                              /\ \A j \in DOMAIN res : res[j].id = doc_id => i <= j
             text == IF local # {}
                     THEN docs_now[CHOOSE i \in local : \A j \in local : i <= j].text
                     ELSE dense_results[first(dense_results)].text
             rec == [id |-> doc_id, text |-> text,
                     dense_score |-> MapGet(dense_results, doc_id, "dense_score", 0),
                     sparse_score |-> MapGet(sparse_results, doc_id, "sparse_score", 0),
                     score |-> HybridScore(dense_results, sparse_results,
                                           doc_id, dense_weight)]
         IN  Combine(docs_now, dense_results, sparse_results, dense_weight, Tail(order),
                     IF local = {} /\ ~inDense THEN acc ELSE Append(acc, rec))

\* the sequences that enumerate the set ids once each
Orders(ids) ==
    {o \in [1..Cardinality(ids) -> ids] : \A i, j \in DOMAIN o : i # j => o[i] # o[j]}

Fuse(docs_now, dense_results, sparse_results, dense_weight, top_k, order) ==
    Take(SortDesc(Combine(docs_now, dense_results, sparse_results,
                          dense_weight, order, <<>>)), top_k)

(***************************************************************************)
(* State                                                                   *)
(***************************************************************************)
VARIABLES
    documents,       \* self.documents: list of [id, text, embedding, metadata]
    splade,          \* the SPLADESearch object self.splade refers to
    splade_fitted,   \* self._splade_fitted
    api_key,         \* settings.OPENAI_API_KEY is set
    use_qdrant,      \* self.qdrant_dense.use_qdrant
    qdrant,          \* the collection of the ANN oracle: [exists, points]
    adds,            \* how many add_documents calls have been made
    query,           \* the coroutine of one search() call
    adder,           \* the coroutine of one add_documents() call
    unit             \* a direct caller of one component, or a client of the endpoints

vars == <<documents, splade, splade_fitted, api_key, use_qdrant, qdrant,
          adds, query, adder, unit>>

Metas == {"m1"}
DocVecs == {"v0", "v2"}
QueryVecs == {"v0", "v3"}

\* _rebuild_sparse_index marking the index as built whatever the corpus holds
RebuildSparseIndexAlways(docs, sp, fitted) ==
    [splade |-> Fit(sp, [i \in 1..Len(docs) |-> docs[i].text],
                        [i \in 1..Len(docs) |-> docs[i].id]),
     fitted |-> TRUE]

\* _rebuild_sparse_index: fit on the current documents, if there are any
RebuildSparseIndex(docs, sp, fitted) ==
    IF docs # <<>>
    THEN [splade |-> Fit(sp, [i \in 1..Len(docs) |-> docs[i].text],
                             [i \in 1..Len(docs) |-> docs[i].id]),
          fitted |-> TRUE]
    ELSE [splade |-> sp, fitted |-> fitted]

\* _sync_from_qdrant: the documents list rebuilt from the points of the oracle
SyncFromQdrant(points) ==
    [i \in 1..Len(points) |->
        [id |-> points[i].id, text |-> points[i].text,
         embedding |-> points[i].vector, metadata |-> points[i].metadata]]

\* what the collection may hold when the store is constructed
InitialPoints ==
    { <<>>,
      <<[id |-> "u0", vector |-> "v0", metadata |-> "m1",
         text |-> <<"A", "b", " ", "c", "d">>]>> }

IdleQuery ==
    [pc |-> "idle", query |-> <<>>, top_k |-> 0, mode |-> "", dense_weight |-> 0,
     dense_top_k |-> 0, sparse_top_k |-> 0, embedding |-> None, dense_results |-> <<>>,
     texts |-> <<>>, doc_ids |-> <<>>, detached |-> FALSE, sp |-> NewSplade,
     terms |-> <<>>, sparse_results |-> <<>>, result |-> <<>>, raised |-> FALSE,
     mutated |-> FALSE]

IdleAdder ==
    [pc |-> "idle", texts |-> <<>>, metadatas |-> <<>>, ids |-> <<>>,
     returned |-> <<>>]

\* the direct caller before its first call: it holds a SPLADESearch object
\* (index) it has constructed, the arguments of its last call and the
\* value the call returned
IdleUnit ==
    [call |-> "none", index |-> NewSplade, fits |-> 0, args |-> <<>>, out |-> <<>>]

\* HybridVectorStore.__init__ (with QdrantDenseSearch.__init__)
Init ==
    /\ api_key \in BOOLEAN
    /\ use_qdrant \in BOOLEAN
    /\ \E points \in InitialPoints :
          /\ (~use_qdrant => points = <<>>)
          /\ qdrant = [exists |-> use_qdrant, points |-> points]
          /\ documents = SyncFromQdrant(points)
          /\ LET r == RebuildSparseIndex(SyncFromQdrant(points), NewSplade, FALSE)
             IN  splade = r.splade /\ splade_fitted = r.fitted
    /\ adds = 0
    /\ query = IdleQuery
    /\ adder = IdleAdder
    /\ unit = IdleUnit

(***************************************************************************)
(* HybridVectorStore.search: one coroutine, suspended only at the two      *)
(* collaborator calls (get_embedding, _expand_query).  With no API key     *)
(* neither call suspends and the whole search runs in one step.            *)
(***************************************************************************)
\* search(): `else:  # hybrid` takes every mode but "dense" and "sparse"
Hybrid(qq) == qq.mode \notin {"dense", "sparse"}

Finished(qq, result) == [qq EXCEPT !.pc = "done", !.result = result, !.raised = FALSE]
Raised(qq) == [qq EXCEPT !.pc = "done", !.result = <<>>, !.raised = TRUE]

\* search_sparse has produced `sparse`; what follows in search / search_hybrid.
\* The outcomes differ in the iteration order of the set all_doc_ids.
AfterSparse(qq, sparse) ==
    IF sparse.raised THEN {Raised(qq)}
    ELSE LET q1 == [qq EXCEPT !.sparse_results = sparse.results]
         IN  IF Hybrid(qq)
             THEN {Finished(q1, Fuse(documents, q1.dense_results, sparse.results,
                                     q1.dense_weight, q1.top_k, order)) :
                     order \in Orders(IdsOf(q1.dense_results) \cup IdsOf(sparse.results))}
             ELSE {Finished(q1, sparse.results)}

\* search_sparse from its first line up to the await of _expand_query
SearchSparse(qq) ==
    LET top_k == IF Hybrid(qq) THEN Len(documents) ELSE qq.top_k
        texts == [i \in 1..Len(documents) |-> documents[i].text]
        doc_ids == [i \in 1..Len(documents) |-> documents[i].id]
        q1 == [qq EXCEPT !.texts = texts, !.doc_ids = doc_ids,
                         !.sparse_top_k = top_k]
        terms == ExpandQuery(qq.query, [status |-> "nokey"])
    IN  IF documents = <<>> \/ ~splade_fitted
        THEN AfterSparse(qq, [raised |-> FALSE, results |-> <<>>])
        ELSE IF ~api_key
             THEN AfterSparse([q1 EXCEPT !.terms = terms],
                              SparseAfterExpansion(splade, documents, texts, doc_ids,
                                                   terms, top_k))
             ELSE {[q1 EXCEPT !.pc = "sparse_expand"]}

\* search_dense has produced dense_results; what follows
AfterDense(qq, dense_results) ==
    LET q1 == [qq EXCEPT !.dense_results = dense_results]
    IN  IF Hybrid(qq) THEN SearchSparse(q1) ELSE {Finished(q1, dense_results)}

\* SearchDense without the guard `if not self.documents: return []`
SearchDenseNoEmptyCheck(qq) ==
    LET top_k == IF Hybrid(qq) THEN Len(documents) ELSE qq.top_k
        q1 == [qq EXCEPT !.dense_top_k = top_k]
    IN  IF ~api_key THEN AfterDense(q1, <<>>)
        ELSE {[q1 EXCEPT !.pc = "dense_embed"]}

\* search_dense from its first line up to the await of get_embedding
SearchDense(qq) ==
    LET top_k == IF Hybrid(qq) THEN Len(documents) ELSE qq.top_k
        q1 == [qq EXCEPT !.dense_top_k = top_k]
    IN  IF documents = <<>> THEN AfterDense(q1, <<>>)
        ELSE IF ~api_key THEN AfterDense(q1, <<>>)
        ELSE {[q1 EXCEPT !.pc = "dense_embed"]}

\* search_hybrid from its first line
SearchHybrid(qq) ==
    IF documents = <<>> THEN {Finished(qq, <<>>)} ELSE SearchDense(qq)

\* a request arrives: search(query, top_k, mode, dense_weight)
Search(q, top_k, mode, dense_weight) ==
    /\ query.pc = "idle" /\ adder.pc # "done"
    /\ LET q0 == [IdleQuery EXCEPT !.query = q, !.top_k = top_k, !.mode = mode,
                                   !.dense_weight = dense_weight]
       IN  query' \in (IF mode = "dense" THEN SearchDense(q0)
                       ELSE IF mode = "sparse" THEN SearchSparse(q0)
                       ELSE SearchHybrid(q0))
    /\ UNCHANGED <<documents, splade, splade_fitted, api_key, use_qdrant, qdrant,
                   adds, adder, unit>>

\* what the ANN oracle may do with a query: answer, or fail after `read`
\* of its points were read
OracleOutcomes(reads) ==
    {[status |-> "ok", read |-> 0]} \cup {[status |-> "fail", read |-> k] : k \in reads}

\* the embedding call of search_dense returns embedding (None: the
\* collaborator failed); oracle is what the ANN oracle then does
DenseResume(embedding, oracle) ==
    /\ query.pc = "dense_embed" /\ adder.pc # "done"
    /\ query' \in AfterDense([query EXCEPT !.embedding = embedding],
                             DenseAfterEmbedding(documents, use_qdrant, qdrant,
                                                 embedding, query.dense_top_k, oracle))
    /\ UNCHANGED <<documents, splade, splade_fitted, api_key, use_qdrant, qdrant,
                   adds, adder, unit>>

ExpansionOutcomes ==
    {[status |-> "error", content |-> <<>>]} \cup
    {[status |-> "ok", content |-> c] : c \in Suggestions}

\* the term-suggestion call of SPLADESearch.search returns.  The coroutine
\* runs on the SPLADESearch object it was called on: the one self.splade
\* still names, or (after a clear) the one it named before.
SparseResume(outcome) ==
    /\ query.pc = "sparse_expand" /\ adder.pc # "done"
    /\ LET terms == ExpandQuery(query.query, outcome)
           sp == IF query.detached THEN query.sp ELSE splade
       IN  query' \in AfterSparse(
               [query EXCEPT !.terms = terms],
               SparseAfterExpansion(sp, documents, query.texts, query.doc_ids,
                                    terms, query.sparse_top_k))
    /\ UNCHANGED <<documents, splade, splade_fitted, api_key, use_qdrant, qdrant,
                   adds, adder, unit>>

(***************************************************************************)
(* HybridVectorStore.add_documents and clear                               *)
(***************************************************************************)
\* a mutation of the store completed while the search coroutine is suspended
Suspended(qq) == qq.pc \in {"dense_embed", "sparse_expand"}

\* qdrant_client.upsert(points): a point replaces the point with its id
RECURSIVE Upsert(_, _)
Upsert(points, new) ==
    IF new = <<>> THEN points
    ELSE LET p == Head(new)
             at == {i \in DOMAIN points : points[i].id = p.id}
         IN  Upsert(IF at = {} THEN Append(points, p)
                    ELSE [i \in DOMAIN points |-> IF i \in at THEN p ELSE points[i]],
                    Tail(new))

\* [x for x in s if x.vector is not None], the `points` list of add_documents
RECURSIVE WithVector(_)
WithVector(s) ==
    IF s = <<>> THEN <<>>
    ELSE IF Head(s).vector # None THEN <<Head(s)>> \o WithVector(Tail(s))
         ELSE WithVector(Tail(s))

\* add_documents after `await self.get_batch_embeddings(texts)`: the upsert,
\* the local append and the rebuild of the sparse index, with no suspension.
\* upsert_ok: the oracle accepts the upsert (else the exception is logged).
AddAfterEmbeddings(texts, metadatas, ids, embeddings, upsert_ok) ==
    LET z == ZipLen({Len(ids), Len(texts), Len(embeddings), Len(metadatas)})
        points == WithVector([i \in 1..z |->
                     [id |-> ids[i], vector |-> embeddings[i],
                      metadata |-> metadatas[i], text |-> texts[i]]])
        docs == documents \o
                [i \in 1..z |-> [id |-> ids[i], text |-> texts[i],
                                 embedding |-> embeddings[i],
                                 metadata |-> metadatas[i]]]
        r == RebuildSparseIndex(docs, splade, splade_fitted)
    IN  /\ qdrant' = IF use_qdrant /\ points # <<>> /\ upsert_ok /\ qdrant.exists
                     THEN [qdrant EXCEPT !.points = Upsert(qdrant.points, points)]
                     ELSE qdrant
        /\ documents' = docs
        /\ splade' = r.splade
        /\ splade_fitted' = r.fitted
        /\ query' = IF Suspended(query) THEN [query EXCEPT !.mutated = TRUE] ELSE query
        /\ adder' = [pc |-> "done", texts |-> texts, metadatas |-> metadatas,
                     ids |-> ids, returned |-> ids]

\* the lists get_batch_embeddings may return for n texts: [None] * n (error
\* or status # 200), or one vector (of vecs) per entry of the response, which
\* may be shorter than texts
EmbeddingBatches(n, vecs) ==
    {[i \in 1..n |-> None]} \cup [1..n -> vecs]
        \cup (IF n > 0 THEN [1..(n - 1) -> vecs] ELSE {})

\* the argument lists of a call: metadatas and ids may be shorter than texts
Batches == [1..1 -> Texts]
ShorterOrEqual(set, n) == [1..n -> set] \cup (IF n > 0 THEN [1..(n - 1) -> set] ELSE {})

\* add_documents appending the chunks to self.documents before it awaits the
\* embeddings
AddDocumentsStoresFirst(texts, metadatas, given, ids) ==
    /\ adder.pc = "idle" /\ query.pc # "done"
    /\ Len(documents) + Len(texts) <= MaxDocs
    /\ adds < MaxAdds
    /\ ~given => ids = <<>>
    /\ LET the_ids == IF given THEN ids
                      ELSE [i \in 1..Len(texts) |-> UuidNames[adds + i]]
           z == ZipLen({Len(the_ids), Len(texts), Len(metadatas)})
       IN  /\ adds' = adds + 1
           /\ IF api_key
              THEN /\ adder' = [pc |-> "embed", texts |-> texts,
                                metadatas |-> metadatas, ids |-> the_ids,
                                returned |-> <<>>]
                   /\ documents' = documents \o
                         [i \in 1..z |-> [id |-> the_ids[i], text |-> texts[i],
                                          embedding |-> None,
                                          metadata |-> metadatas[i]]]
                   /\ UNCHANGED <<splade, splade_fitted, qdrant, query>>
              ELSE AddAfterEmbeddings(texts, metadatas, the_ids,
                                      [i \in 1..Len(texts) |-> None], TRUE)
    /\ UNCHANGED <<api_key, use_qdrant, unit>>

\* a call add_documents(texts, metadatas, ids); given = FALSE is ids=None
AddDocuments(texts, metadatas, given, ids) ==
    /\ adder.pc = "idle" /\ query.pc # "done"
    /\ Len(documents) + Len(texts) <= MaxDocs
    /\ adds < MaxAdds
    /\ ~given => ids = <<>>
    /\ LET the_ids == IF given THEN ids
                      ELSE [i \in 1..Len(texts) |-> UuidNames[adds + i]]
       IN  /\ adds' = adds + 1
           /\ IF api_key
              THEN /\ adder' = [pc |-> "embed", texts |-> texts,
                                metadatas |-> metadatas, ids |-> the_ids,
                                returned |-> <<>>]
                   /\ UNCHANGED <<documents, splade, splade_fitted, qdrant, query>>
              ELSE AddAfterEmbeddings(texts, metadatas, the_ids,
                                      [i \in 1..Len(texts) |-> None], TRUE)
    /\ UNCHANGED <<api_key, use_qdrant, unit>>

\* the embedding call of add_documents returns
AddResume(embeddings, upsert_ok) ==
    /\ adder.pc = "embed" /\ query.pc # "done"
    /\ AddAfterEmbeddings(adder.texts, adder.metadatas, adder.ids,
                          embeddings, upsert_ok)
    /\ UNCHANGED <<api_key, use_qdrant, adds, unit>>

\* add_documents has returned its ids to save_papers_to_vectordb
AddReturn ==
    /\ adder.pc = "done"
    /\ adder' = IdleAdder
    /\ UNCHANGED <<documents, splade, splade_fitted, api_key, use_qdrant, qdrant,
                   adds, query, unit>>

\* search has returned its results to search_vectordb
SearchReturn ==
    /\ query.pc = "done"
    /\ query' = IdleQuery
    /\ UNCHANGED <<documents, splade, splade_fitted, api_key, use_qdrant, qdrant,
                   adds, adder, unit>>

\* Clear without `self.splade = SPLADESearch()`: the old index object stays
ClearKeepsIndex(oracle) ==
    /\ query.pc # "done" /\ adder.pc # "done"
    /\ documents' = <<>>
    /\ splade_fitted' = FALSE
    /\ qdrant' = IF ~use_qdrant \/ oracle = "delete_fails" THEN qdrant
                 ELSE IF oracle = "create_fails" THEN [exists |-> FALSE, points |-> <<>>]
                 ELSE [exists |-> TRUE, points |-> <<>>]
    /\ query' = IF Suspended(query) THEN [query EXCEPT !.mutated = TRUE] ELSE query
    /\ UNCHANGED <<splade, api_key, use_qdrant, adds, adder, unit>>

\* clear(); oracle is "ok", "delete_fails" or "create_fails"
Clear(oracle) ==
    /\ query.pc # "done" /\ adder.pc # "done"
    /\ documents' = <<>>
    /\ splade_fitted' = FALSE
    /\ splade' = NewSplade
    /\ qdrant' = IF ~use_qdrant \/ oracle = "delete_fails" THEN qdrant
                 ELSE IF oracle = "create_fails" THEN [exists |-> FALSE, points |-> <<>>]
                 ELSE [exists |-> TRUE, points |-> <<>>]
    /\ query' = IF ~Suspended(query) THEN query
                ELSE IF query.pc = "sparse_expand" /\ ~query.detached
                     THEN [query EXCEPT !.mutated = TRUE, !.detached = TRUE,
                                        !.sp = splade]
                     ELSE [query EXCEPT !.mutated = TRUE]
    /\ UNCHANGED <<api_key, use_qdrant, adds, adder, unit>>

ClearOutcomes == {"ok", "delete_fails", "create_fails"}

(***************************************************************************)
(* Spec: requests interleave at the suspension points (one search, one     *)
(* add_documents and any number of clear calls in flight).                 *)
(***************************************************************************)
Next ==
    \/ \E q \in Queries, mode \in Modes :
          Search(q, MaxTopK, mode, 7000)
    \/ \E embedding \in {"v0", None}, oracle \in OracleOutcomes({0}) :
          DenseResume(embedding, oracle)
    \/ \E outcome \in ExpansionOutcomes : SparseResume(outcome)
    \/ SearchReturn
    \/ \E texts \in Batches, given \in BOOLEAN :
          AddDocuments(texts, [i \in 1..Len(texts) |-> "m1"], given,
                       IF given THEN [i \in 1..Len(texts) |-> "x"] ELSE <<>>)
    \/ \E embeddings \in EmbeddingBatches(Len(adder.texts), {"v0"}) :
          AddResume(embeddings, TRUE)
    \/ AddReturn
    \/ \E oracle \in ClearOutcomes : Clear(oracle)

Spec == Init /\ [][Next]_vars

(***************************************************************************)
(* SpecSeq: the same operations with one request in flight at a time, over *)
(* the full input sets.                                                    *)
(***************************************************************************)
NextSeq ==
    \/ \E q \in Queries, top_k \in TopKs, mode \in Modes, dense_weight \in Weights :
          adder.pc = "idle" /\ Search(q, top_k, mode, dense_weight)
    \/ \E embedding \in QueryVecs \cup {None},
          oracle \in OracleOutcomes(0..Len(qdrant.points)) :
          adder.pc = "idle" /\ DenseResume(embedding, oracle)
    \/ \E outcome \in ExpansionOutcomes :
          adder.pc = "idle" /\ SparseResume(outcome)
    \/ adder.pc = "idle" /\ SearchReturn
    \/ \E texts \in Batches, given \in BOOLEAN :
          \E metadatas \in ShorterOrEqual(Metas, Len(texts)),
             ids \in ShorterOrEqual(CallerIds, Len(texts)) :
             query.pc = "idle" /\ AddDocuments(texts, metadatas, given, ids)
    \/ \E embeddings \in EmbeddingBatches(Len(adder.texts), DocVecs) :
          query.pc = "idle" /\ AddResume(embeddings, TRUE)
    \/ query.pc = "idle" /\ AddReturn
    \/ \E oracle \in ClearOutcomes :
          query.pc = "idle" /\ Clear(oracle)

SpecSeq == Init /\ [][NextSeq]_vars

(***************************************************************************)
(* Direct calls.  The specifications below drive one function of the code  *)
(* at a time with arguments drawn from small sets; the store is the one    *)
(* HybridVectorStore() constructs with no oracle and no API key, and it    *)
(* is not touched.                                                         *)
(***************************************************************************)
storeVars == <<documents, splade, splade_fitted, api_key, use_qdrant, qdrant,
               adds, query, adder>>

UnitInit ==
    /\ api_key = FALSE
    /\ use_qdrant = FALSE
    /\ qdrant = [exists |-> FALSE, points |-> <<>>]
    /\ documents = <<>>
    /\ splade = NewSplade
    /\ splade_fitted = FALSE
    /\ adds = 0
    /\ query = IdleQuery
    /\ adder = IdleAdder
    /\ unit = IdleUnit

(***************************************************************************)
(* SpecFusion: the fusion step of search_hybrid (from max_sparse to the    *)
(* truncation) applied to given dense and sparse result lists, and then    *)
(* applied again to the same lists with a larger dense_weight.             *)
(***************************************************************************)
\* three chunks; A and B are in both lists, C in the sparse list only
FusionDocs ==
    [i \in 1..3 |-> [id |-> <<"A", "B", "C">>[i], text |-> <<"c", "d">>,
                     embedding |-> None, metadata |-> "m1"]]

\* dense scores 1.0, 0.95, 0.5 and sparse display scores 7.40, 7.50, 10.00
DenseLevels == {S, 9500, 5000}
SparseLevels == {74000, 75000, 100000}
FusionWeights == {0, 3000, 9000, S}

DenseList(dA, dB) ==
    <<DenseRecord("A", <<"c", "d">>, dA), DenseRecord("B", <<"c", "d">>, dB)>>

SparseList(sA, sB) ==
    [i \in 1..3 |->
        LET v == <<100000, sA, sB>>[i]
        IN  [id |-> <<"C", "A", "B">>[i], text |-> <<"c", "d">>,
             dense_score |-> NoScore, sparse_score |-> v, score |-> v]]

\* the fusion step on the lists dense_results and sparse_results
FuseCall(dense_results, sparse_results, dense_weight, order) ==
    /\ unit.call = "none"
    /\ unit' = [unit EXCEPT
                  !.call = "fuse",
                  !.args = [dense_results |-> dense_results,
                            sparse_results |-> sparse_results,
                            dense_weight |-> dense_weight],
                  !.out = [before |-> <<>>,
                           result |-> Fuse(FusionDocs, dense_results, sparse_results,
                                           dense_weight, 3, order)]]
    /\ UNCHANGED storeVars

\* the same lists fused again with a larger dense_weight
FuseAgain(dense_weight, order) ==
    /\ unit.call = "fuse"
    /\ dense_weight > unit.args.dense_weight
    /\ unit' = [unit EXCEPT
                  !.call = "fuse_again",
                  !.args = [unit.args EXCEPT !.dense_weight = dense_weight],
                  !.out = [before |-> unit.out.result,
                           result |-> Fuse(FusionDocs, unit.args.dense_results,
                                           unit.args.sparse_results,
                                           dense_weight, 3, order)]]
    /\ UNCHANGED storeVars

NextFusion ==
    \/ \E dA \in DenseLevels, dB \in DenseLevels,
          sA \in SparseLevels, sB \in SparseLevels, w \in FusionWeights :
          \E order \in Orders({"A", "B", "C"}) :
             FuseCall(DenseList(dA, dB), SparseList(sA, sB), w, order)
    \/ \E w \in FusionWeights, order \in Orders({"A", "B", "C"}) :
          FuseAgain(w, order)

SpecFusion == UnitInit /\ [][NextFusion]_vars

(***************************************************************************)
(* SpecSparse: a store constructed over a collection that already holds a  *)
(* corpus (_sync_from_qdrant), and sparse searches on it, one at a time.   *)
(***************************************************************************)
\* chunk texts: "Ab cd", "cd, ef x", "gh", "cd ef cd"
SparseTexts ==
    { <<"A", "b", " ", "c", "d">>,
      <<"c", "d", ",", " ", "e", "f", " ", "x">>,
      <<"g", "h">>,
      <<"c", "d", " ", "e", "f", " ", "c", "d">> }

\* queries: "Cd ef", "Ab"
SparseQueries == { <<"C", "d", " ", "e", "f">>, <<"A", "b">> }

PointNames == <<"p1", "p2", "p3", "p4">>

\* the collections of up to MaxCorpus points over SparseTexts
StoredCorpora ==
    UNION {[1..n -> SparseTexts] : n \in 0..MaxCorpus}

InitSparse ==
    /\ api_key \in BOOLEAN
    /\ use_qdrant = TRUE
    /\ \E texts \in StoredCorpora :
          LET points == [i \in 1..Len(texts) |->
                            [id |-> PointNames[i], vector |-> "v0",
                             metadata |-> "m1", text |-> texts[i]]]
              r == RebuildSparseIndex(SyncFromQdrant(points), NewSplade, FALSE)
          IN  /\ qdrant = [exists |-> TRUE, points |-> points]
              /\ documents = SyncFromQdrant(points)
              /\ splade = r.splade
              /\ splade_fitted = r.fitted
    /\ adds = 0
    /\ query = IdleQuery
    /\ adder = IdleAdder
    /\ unit = IdleUnit

NextSparse ==
    \/ \E q \in SparseQueries, top_k \in 1..MaxCorpus :
          Search(q, top_k, "sparse", 7000)
    \/ \E outcome \in ExpansionOutcomes : SparseResume(outcome)
    \/ SearchReturn

SpecSparse == InitSparse /\ [][NextSparse]_vars

(***************************************************************************)
(* SpecExpander: SPLADESearch._expand_query called on a query, for every   *)
(* outcome of the term-suggestion collaborator.                            *)
(***************************************************************************)
\* sep.join(words)
RECURSIVE Join(_, _)
Join(words, sep) ==
    IF words = <<>> THEN <<>>
    ELSE IF Len(words) = 1 THEN Head(words)
    ELSE Head(words) \o sep \o Join(Tail(words), sep)

\* the words "aa", "ab", ..., "cg": one more than _expand_query keeps
Letters == <<"a", "b", "c", "d", "e", "f", "g">>
LongWords ==
    [n \in 1..(MaxTerms + 1) |->
        <<Letters[((n - 1) \div 7) + 1], Letters[((n - 1) % 7) + 1]>>]

\* queries: up to three of the words "ab", "Cd", "x" separated by blanks,
\* and the query of all the LongWords
ExpanderWords == { <<"a", "b">>, <<"C", "d">>, <<"x">> }
ExpanderQueries ==
    {Join(ws, <<" ">>) : ws \in UNION {[1..n -> ExpanderWords] : n \in 0..3}}
        \cup {Join(LongWords, <<" ">>)}

\* contents of a response: up to three of the candidates "ab", " cd ef",
\* "", "Gh " separated by commas, and the list of all the LongWords
Candidates == { <<"a", "b">>, <<" ", "c", "d", " ", "e", "f">>, <<>>, <<"G", "h", " ">> }
ExpanderContents ==
    {Join(cs, <<",">>) : cs \in UNION {[1..n -> Candidates] : n \in 1..3}}
        \cup {Join(LongWords, <<",">>)}

\* not configured, an exception, a response with a status other than 200,
\* or a response with status 200 and its content
ExpanderOutcomes ==
    {[status |-> st, content |-> <<>>] : st \in {"nokey", "error", "non200"}}
        \cup {[status |-> "ok", content |-> c] : c \in ExpanderContents}

\* one call of _expand_query(q) in which the collaborator does outcome
ExpandCall(q, outcome) ==
    /\ unit.call = "none"
    /\ unit' = [unit EXCEPT !.call = "_expand_query",
                            !.args = [query |-> q, outcome |-> outcome],
                            !.out = ExpandQuery(q, outcome)]
    /\ UNCHANGED storeVars

NextExpander ==
    \E q \in ExpanderQueries, outcome \in ExpanderOutcomes : ExpandCall(q, outcome)

SpecExpander == UnitInit /\ [][NextExpander]_vars

(***************************************************************************)
(* SpecIndex: one SPLADESearch object, fit called on it up to MaxFits      *)
(* times and then score called on it.                                      *)
(***************************************************************************)
\* document texts: "Ab cd", "x" (no token is kept), "cd x ef"
IndexTexts ==
    { <<"A", "b", " ", "c", "d">>,
      <<"x">>,
      <<"c", "d", " ", "x", " ", "e", "f">> }

\* the corpora of up to MaxDocs documents over IndexTexts, the empty one included
IndexCorpora ==
    UNION {[1..n -> IndexTexts] : n \in 0..MaxDocs}

\* weighted query terms: the words "ab" and "cd" with the weight of an
\* original term, the phrase "cd ef" with the weight of an original term
\* and with the weight of an expansion term
IndexTerms ==
    { [term |-> <<"a", "b">>, weight |-> OriginalWeight],
      [term |-> <<"c", "d">>, weight |-> OriginalWeight],
      [term |-> <<"c", "d", " ", "e", "f">>, weight |-> OriginalWeight],
      [term |-> <<"c", "d", " ", "e", "f">>, weight |-> ExpansionWeight(1)] }

\* queries of one or two weighted terms
IndexQueries ==
    [1..1 -> IndexTerms] \cup [1..2 -> IndexTerms]

\* texts scored: "Cd ef", "cd x ef", "ab"
ScoredTexts ==
    { <<"C", "d", " ", "e", "f">>,
      <<"c", "d", " ", "x", " ", "e", "f">>,
      <<"a", "b">> }

\* fit(documents, doc_ids) on the object
FitCall(docs, doc_ids) ==
    /\ unit.call # "score"
    /\ unit.fits < MaxFits
    /\ unit' = [call |-> "fit",
                index |-> Fit(unit.index, docs, doc_ids),
                fits |-> unit.fits + 1,
                args |-> [documents |-> docs, doc_ids |-> doc_ids],
                out |-> <<>>]
    /\ UNCHANGED storeVars

\* score(query_terms, doc_idx, doc_text) on the object; doc_idx counts from 0.
\* score leaves the object as it is, so a behaviour ends with one score call.
ScoreCall(query_terms, doc_idx, doc_text) ==
    /\ unit.call # "score"
    /\ unit' = [unit EXCEPT
                  !.call = "score",
                  !.args = [query_terms |-> query_terms, doc_idx |-> doc_idx,
                            doc_text |-> doc_text],
                  !.out = Score(unit.index, query_terms, doc_idx + 1, doc_text)]
    /\ UNCHANGED storeVars

NextIndex ==
    \/ \E docs \in IndexCorpora : FitCall(docs, Take(PointNames, Len(docs)))
    \/ \E query_terms \in IndexQueries, doc_idx \in 0..MaxDocs,
          doc_text \in ScoredTexts :
          ScoreCall(query_terms, doc_idx, doc_text)

SpecIndex == UnitInit /\ [][NextIndex]_vars

(***************************************************************************)
(* Chunking: chunk_text (api/v1/vectordb.py) and TextChunker.chunk_by_tokens *)
(* (services/embedding/chunker.py).  Both run the same loop; ChunkLoop is   *)
(* one iteration of it.                                                    *)
(***************************************************************************)
\* settings.CHUNK_SIZE and settings.CHUNK_OVERLAP
CHUNK_SIZE == 500
CHUNK_OVERLAP == 100

\* Python's `x or y` on integers and None (None is written 0)
Or(x, y) == IF x # 0 THEN x ELSE y

\* int(n / 1.3) and int(n * 1.3) for n >= 0
DivideBy13(n) == (n * 10) \div 13
TimesBy13(n) == (n * 13) \div 10

\* words[start:end] with Python's reading of negative and too large indices
PySlice(words, start, end) ==
    LET n == Len(words)
        lo == IF start < 0 THEN Max(start + n, 0) ELSE Min(start, n)
        hi == IF end < 0 THEN Max(end + n, 0) ELSE Min(end, n)
    IN  IF lo < hi THEN SubSeq(words, lo + 1, hi) ELSE <<>>

\* text.split() by halves, so that a long text is split without deep
\* recursion: a word cut by the middle is put together again
RECURSIVE Words(_)
Words(t) ==
    IF t = <<>> THEN <<>>
    ELSE IF Len(t) = 1 THEN (IF IsSpace(t[1]) THEN <<>> ELSE <<t>>)
    ELSE LET m == Len(t) \div 2
             l == Words(SubSeq(t, 1, m))
             r == Words(SubSeq(t, m + 1, Len(t)))
         IN  IF ~IsSpace(t[m]) /\ ~IsSpace(t[m + 1])
             THEN SubSeq(l, 1, Len(l) - 1) \o <<l[Len(l)] \o r[1]>> \o Tail(r)
             ELSE l \o r

\* re.sub(r'\s+', ' ', text), by halves
RECURSIVE CollapseSpaces(_)
CollapseSpaces(t) ==
    IF Len(t) <= 1 THEN t
    ELSE LET m == Len(t) \div 2
             l == CollapseSpaces(SubSeq(t, 1, m))
             r == CollapseSpaces(SubSeq(t, m + 1, Len(t)))
         IN  IF IsSpace(l[Len(l)]) /\ IsSpace(r[1]) THEN l \o Tail(r) ELSE l \o r

\* TextChunker.clean_text on a text with no reference number, figure
\* reference or URL in it: whitespace is normalised and the ends stripped
CleanText(text) == Strip(CollapseSpaces(text))

\* the call is in its while loop / has returned unit.out.chunks
InLoop(window, step_back, words) ==
    [pc |-> "loop", words |-> words, window |-> window, step_back |-> step_back,
     start |-> 0, chunks |-> <<>>]
Returned(chunks) ==
    [pc |-> "done", words |-> <<>>, window |-> 0, step_back |-> 0,
     start |-> 0, chunks |-> chunks]

\* chunk_text(text, chunk_size, overlap) up to its while loop
ChunkText(text, chunk_size, overlap) ==
    /\ unit.call = "none"
    /\ unit' = [unit EXCEPT
          !.call = "chunk_text",
          !.args = [text |-> text, chunk_size |-> chunk_size, overlap |-> overlap],
          !.out = IF text = <<>> THEN Returned(<<>>)
                  ELSE IF Len(Words(text)) <= chunk_size THEN Returned(<<text>>)
                  ELSE InLoop(chunk_size, overlap, Words(text))]
    /\ UNCHANGED storeVars

\* TextChunker(ctor_size, ctor_overlap).chunk_by_tokens(text, chunk_size,
\* overlap) up to its while loop
ChunkByTokens(ctor_size, ctor_overlap, text, chunk_size, overlap) ==
    /\ unit.call = "none"
    /\ LET self_chunk_size == Or(ctor_size, CHUNK_SIZE)
           self_chunk_overlap == Or(ctor_overlap, CHUNK_OVERLAP)
           size == Or(chunk_size, self_chunk_size)
           over == Or(overlap, self_chunk_overlap)
           cleaned == CleanText(text)
           words == Words(cleaned)
       IN  unit' = [unit EXCEPT
              !.call = "chunk_by_tokens",
              !.args = [text |-> text, chunk_size |-> chunk_size, overlap |-> overlap,
                        ctor_size |-> ctor_size, ctor_overlap |-> ctor_overlap],
              !.out = IF cleaned = <<>> \/ words = <<>> THEN Returned(<<>>)
                      ELSE InLoop(DivideBy13(size), DivideBy13(over), words)]
    /\ UNCHANGED storeVars

\* the element appended to chunks: a str in chunk_text, a TextChunk in
\* chunk_by_tokens
ChunkOf(call, chunk, index) ==
    IF call = "chunk_text" THEN chunk
    ELSE [text |-> chunk, index |-> index,
          token_count |-> TimesBy13(Len(Words(chunk)))]

\* the loop with `start = end` in place of `start = end - overlap`
LoopBodyNoOverlap(call, st) ==
    LET n == Len(st.words)
        end == Min(st.start + st.window, n)
        chunk == Join(PySlice(st.words, st.start, end), <<" ">>)
        chunks == Append(st.chunks, ChunkOf(call, chunk, Len(st.chunks)))
        start == end
    IN  IF start >= n - st.step_back \/ ~(start < n)
        THEN Returned(chunks)
        ELSE [st EXCEPT !.start = start, !.chunks = chunks]

\* one iteration of `while start < len(words)`, entered with start < len(words)
LoopBody(call, st) ==
    LET n == Len(st.words)
        end == Min(st.start + st.window, n)
        chunk == Join(PySlice(st.words, st.start, end), <<" ">>)
        chunks == Append(st.chunks, ChunkOf(call, chunk, Len(st.chunks)))
        start == end - st.step_back
    IN  IF start >= n - st.step_back \/ ~(start < n)
        THEN Returned(chunks)
        ELSE [st EXCEPT !.start = start, !.chunks = chunks]

ChunkLoop ==
    /\ unit.call \in {"chunk_text", "chunk_by_tokens"}
    /\ unit.out.pc = "loop"
    /\ Len(unit.out.chunks) < MaxChunks
    /\ unit' = [unit EXCEPT !.out = LoopBody(unit.call, unit.out)]
    /\ UNCHANGED storeVars

\* texts of 0..MaxWords different words separated by one blank, two of
\* them also with more whitespace, and the text of 500 times the same word
WordsUpTo(n) == [i \in 1..n |-> <<Letters[i]>>]
ChunkTexts ==
    {Join(WordsUpTo(n), <<" ">>) : n \in 0..MaxWords}
        \cup { <<" ">>, <<" ", "a", " ", " ", "b", " ", "c", " ">> }
LongText == [i \in 1..999 |-> IF i % 2 = 1 THEN "x" ELSE " "]

NextChunker ==
    \/ \E text \in ChunkTexts, chunk_size \in 1..MaxWords, overlap \in 0..MaxWords :
          ChunkText(text, chunk_size, overlap)
    \/ \E text \in ChunkTexts, ctor_size \in {0, 3}, ctor_overlap \in {0, 2},
          chunk_size \in {0, 1, 2, 4}, overlap \in {0, 2, 4} :
          ChunkByTokens(ctor_size, ctor_overlap, text, chunk_size, overlap)
    \/ \E chunk_size \in {0, 100}, overlap \in {0, 20} :
          ChunkByTokens(100, 20, LongText, chunk_size, overlap)
    \/ ChunkLoop

SpecChunker == UnitInit /\ [][NextChunker]_vars

(***************************************************************************)
(* SpecCancel: add_documents calls that may be cancelled.  A task is        *)
(* cancelled at a suspension point; add_documents has one, the await of     *)
(* get_batch_embeddings, whose `except Exception` does not catch the        *)
(* CancelledError (a BaseException), so the error leaves add_documents at   *)
(* that line.                                                              *)
(***************************************************************************)
\* the task running add_documents is cancelled while it awaits the embeddings
AddCancel ==
    /\ adder.pc = "embed"
    /\ adder' = [adder EXCEPT !.pc = "cancelled"]
    /\ UNCHANGED <<documents, splade, splade_fitted, api_key, use_qdrant, qdrant,
                   adds, query, unit>>

\* the CancelledError has reached the caller of add_documents
AddCancelled ==
    /\ adder.pc = "cancelled"
    /\ adder' = IdleAdder
    /\ UNCHANGED <<documents, splade, splade_fitted, api_key, use_qdrant, qdrant,
                   adds, query, unit>>

NextCancel ==
    \/ \E texts \in Batches, given \in BOOLEAN :
          \E metadatas \in ShorterOrEqual(Metas, Len(texts)),
             ids \in ShorterOrEqual(CallerIds, Len(texts)) :
             AddDocuments(texts, metadatas, given, ids)
    \/ \E embeddings \in EmbeddingBatches(Len(adder.texts), DocVecs),
          upsert_ok \in BOOLEAN :
          AddResume(embeddings, upsert_ok)
    \/ AddCancel
    \/ AddCancelled
    \/ AddReturn
    \/ \E oracle \in ClearOutcomes : Clear(oracle)

SpecCancel == Init /\ [][NextCancel]_vars

(***************************************************************************)
(* search_dense called directly: the store, the state of the ANN oracle    *)
(* and what the oracle does are the arguments of the call                  *)
(***************************************************************************)
\* the corpora search_dense is called on: every chunk has its own id and
\* an embedding or none
DenseCorpora ==
    UNION {{[i \in 1..n |-> [id |-> UuidNames[i], text |-> <<"A", "b">>,
                             embedding |-> e[i], metadata |-> "m1"]] :
               e \in [1..n -> DocVecs \cup {None}]} : n \in 1..MaxDocs}

\* the points the collection holds for a corpus: the chunks that were
\* upserted with their embedding
PointsOf(docs) ==
    WithVector([i \in 1..Len(docs) |->
                   [id |-> docs[i].id, vector |-> docs[i].embedding,
                    metadata |-> docs[i].metadata, text |-> docs[i].text]])

\* a point of an earlier corpus that a failed delete_collection left behind
StalePoint ==
    [id |-> "u0", vector |-> "v0", metadata |-> "m1",
     text |-> <<"A", "b", " ", "c", "d">>]

\* what the collection may hold next to a corpus: its points, its points and
\* a stale one, or nothing (every upsert failed)
CollectionsFor(docs) ==
    {[exists |-> e, points |-> p] :
        e \in BOOLEAN,
        p \in {PointsOf(docs), <<StalePoint>> \o PointsOf(docs), <<>>}}

\* search_dense from `results = []` on
DenseCall(docs, use_q, qd, query_embedding, top_k, oracle) ==
    /\ unit.call = "none"
    /\ unit' = [unit EXCEPT
                  !.call = "search_dense",
                  !.args = [docs |-> docs, use_q |-> use_q, qd |-> qd,
                            query_embedding |-> query_embedding,
                            top_k |-> top_k, oracle |-> oracle],
                  !.out = DenseAfterEmbedding(docs, use_q, qd, query_embedding,
                                              top_k, oracle)]
    /\ UNCHANGED <<documents, splade, splade_fitted, api_key, use_qdrant,
                   qdrant, adds, query, adder>>

\* r.score of the points of a response: cosine similarities in steps of 1/4
NativeScores == {(k * S) \div 4 : k \in (0 - 4)..4}

\* the responses of query_points: at most MaxTopK points, best score first
QdrantResponses ==
    UNION {{[i \in 1..n |-> [id |-> UuidNames[i], text |-> <<"A", "b">>,
                             score |-> sc[i]]] :
               sc \in {f \in [1..n -> NativeScores] :
                          \A i \in 1..n : \A j \in 1..n : i < j => f[i] >= f[j]}} :
           n \in 1..MaxTopK}

\* the primary path of search_dense on a response of the oracle
QdrantResponse(hits) ==
    /\ unit.call = "none"
    /\ unit' = [unit EXCEPT !.call = "qdrant_response", !.args = hits,
                            !.out = QdrantResults(hits)]
    /\ UNCHANGED <<documents, splade, splade_fitted, api_key, use_qdrant,
                   qdrant, adds, query, adder>>

NextDense ==
    \/ \E docs \in DenseCorpora, use_q \in BOOLEAN, query_embedding \in QueryVecs,
          top_k \in 1..MaxTopK :
          \E qd \in CollectionsFor(docs) :
             \E oracle \in OracleOutcomes(0..Len(qd.points)) :
                DenseCall(docs, use_q, qd, query_embedding, top_k, oracle)
    \/ \E hits \in QdrantResponses : QdrantResponse(hits)

SpecDense == UnitInit /\ [][NextDense]_vars

(***************************************************************************)
(* The endpoints POST /papers/save, GET /papers and DELETE /clear, with    *)
(* the module-level vectordb_metadata_store.  No API key is set, so        *)
(* add_documents does not suspend and each endpoint runs in one step.  The *)
(* client record holds the endpoint called last, its request and response, *)
(* the _papers dict of the metadata store (as the list of its values) and  *)
(* whether DELETE /clear returned with no save after it.                   *)
(***************************************************************************)
Pmids == {"", "p1", "p2"}

\* PaperForVectorDB, reduced to pmid, title and abstract
PapersForVectorDB ==
    [pmid : Pmids, title : {<<"A", "b">>}, abstract : {<<>>, <<"c", "d">>}]

\* SavePapersRequest.papers
SavePapersRequests ==
    UNION {[1..n -> PapersForVectorDB] : n \in 1..MaxDocs}

IdleClient ==
    [call |-> "none", args |-> <<>>, out |-> <<>>, papers |-> <<>>,
     cleared |-> FALSE]

PapersInit ==
    /\ api_key = FALSE
    /\ use_qdrant = FALSE
    /\ qdrant = [exists |-> FALSE, points |-> <<>>]
    /\ documents = <<>>
    /\ splade = NewSplade
    /\ splade_fitted = FALSE
    /\ adds = 0
    /\ query = IdleQuery
    /\ adder = IdleAdder
    /\ unit = IdleClient

\* f"{paper.title}. {paper.abstract}" if paper.abstract else paper.title
FullText(paper) ==
    IF paper.abstract # <<>> THEN paper.title \o <<".", " ">> \o paper.abstract
    ELSE paper.title

\* chunk_text(full_text) for a text of at most 500 words: its early returns
ChunkShortText(text) == IF text = <<>> THEN <<>> ELSE <<text>>

\* the loop of save_papers_to_vectordb over request.papers: one entry
\* [text, metadata] per chunk
RECURSIVE AllChunks(_)
AllChunks(papers) ==
    IF papers = <<>> THEN <<>>
    ELSE LET paper == Head(papers)
             chunks == ChunkShortText(FullText(paper))
         IN  [i \in 1..Len(chunks) |->
                 [text |-> chunks[i],
                  metadata |-> [pmid |-> paper.pmid, title |-> paper.title]]]
             \o AllChunks(Tail(papers))

\* VectorDBMetadataStore.save_papers_batch: self._papers[pmid] = {...} for
\* every paper with a pmid; a dict keeps the position of a key it replaces
RECURSIVE SavePapersBatch(_, _)
SavePapersBatch(stored, papers) ==
    IF papers = <<>> THEN stored
    ELSE LET paper == Head(papers)
             at == {i \in DOMAIN stored : stored[i].pmid = paper.pmid}
         IN  SavePapersBatch(
                IF paper.pmid = "" THEN stored
                ELSE IF at = {} THEN Append(stored, paper)
                ELSE [i \in DOMAIN stored |-> IF i \in at THEN paper ELSE stored[i]],
                Tail(papers))

\* POST /papers/save
SavePapersToVectordb(request) ==
    LET all == AllChunks(request)
        docs == documents \o
                [i \in 1..Len(all) |->
                    [id |-> UuidNames[adds + i], text |-> all[i].text,
                     embedding |-> None, metadata |-> all[i].metadata]]
        r == RebuildSparseIndex(docs, splade, splade_fitted)
    IN  /\ Len(documents) + Len(all) <= MaxDocs
        /\ adds < MaxAdds
        /\ IF all # <<>>
           THEN /\ documents' = docs
                /\ splade' = r.splade
                /\ splade_fitted' = r.fitted
                /\ adds' = adds + 1
           ELSE UNCHANGED <<documents, splade, splade_fitted, adds>>
        /\ unit' = [unit EXCEPT !.call = "save", !.args = request,
                                !.out = [saved_count |-> Len(request),
                                         total_chunks |-> Len(all)],
                                !.papers = SavePapersBatch(unit.papers, request),
                                !.cleared = FALSE]
        /\ UNCHANGED <<api_key, use_qdrant, qdrant, query, adder>>

\* DELETE /clear: vector_store.clear() (no collection to clear: use_qdrant
\* is false)
ClearVectordb ==
    /\ documents' = <<>>
    /\ splade_fitted' = FALSE
    /\ splade' = NewSplade
    /\ unit' = [unit EXCEPT !.call = "clear", !.args = <<>>,
                            !.out = "success", !.cleared = TRUE]
    /\ UNCHANGED <<api_key, use_qdrant, qdrant, adds, query, adder>>

\* HybridVectorStore.get_papers: the first chunk of every pmid
RECURSIVE GetPapers(_, _)
GetPapers(docs, acc) ==
    IF docs = <<>> THEN acc
    ELSE LET doc == Head(docs)
             pmid == doc.metadata.pmid
         IN  GetPapers(Tail(docs),
                IF pmid # "" /\ \A i \in DOMAIN acc : acc[i].pmid # pmid
                THEN Append(acc, [pmid |-> pmid, title |-> doc.metadata.title,
                                  abstract |-> doc.text])
                ELSE acc)

\* the papers GET /papers answers with: those of the vector store, replaced
\* and followed by those of the metadata store
MergedPapers(docs, stored) == SavePapersBatch(GetPapers(docs, <<>>), stored)

\* GET /papers
GetVectordbPapers ==
    /\ unit' = [unit EXCEPT !.call = "get", !.args = <<>>,
                            !.out = MergedPapers(documents, unit.papers)]
    /\ UNCHANGED storeVars

NextPapers ==
    \/ \E request \in SavePapersRequests : SavePapersToVectordb(request)
    \/ ClearVectordb
    \/ GetVectordbPapers

SpecPapers == PapersInit /\ [][NextPapers]_vars

(***************************************************************************)
(* Properties                                                              *)
(***************************************************************************)
DocIds == [i \in 1..Len(documents) |-> documents[i].id]
DocTexts == [i \in 1..Len(documents) |-> documents[i].text]
Done == query.pc = "done"
ValidModes == {"dense", "sparse", "hybrid"}

\* C1: a search whose mode is none of "dense", "sparse", "hybrid" is rejected;
\* it never runs one of the three modes and returns results.
C1_InvalidModeNeverReturnsResults ==
    ~(Done /\ query.mode \notin ValidModes /\ ~query.raised /\ query.result # <<>>)

\* C2: a search that was suspended at a collaborator call while add_documents
\* or clear ran to completion does not raise, and every sparse result it
\* builds carries the id and text of the chunk whose text was scored.
C2_SuspendedQuerySafe ==
    (Done /\ query.mutated) =>
        /\ ~query.raised
        /\ \A i \in DOMAIN query.sparse_results :
              \E j \in DOMAIN query.doc_ids :
                 /\ query.doc_ids[j] = query.sparse_results[i].id
                 /\ query.texts[j] = query.sparse_results[i].text

C4_IndexIsProjection ==
    LET toks == [i \in 1..Len(documents) |-> Tokenize(documents[i].text)]
        vocab == UNION {Range(toks[i]) : i \in 1..Len(documents)}
    IN  /\ splade.n_docs = Len(documents)
        /\ splade.doc_lens = [i \in 1..Len(documents) |-> Len(toks[i])]
        /\ DOMAIN splade.doc_freqs = vocab
        /\ DOMAIN splade.idf = vocab
        /\ \A t \in vocab :
              /\ splade.doc_freqs[t] =
                    Cardinality({i \in 1..Len(documents) : t \in Range(toks[i])})
              /\ splade.idf[t] = IdfValue(Len(documents), splade.doc_freqs[t])
        /\ splade.avg_doc_len = Fit(NewSplade, DocTexts, DocIds).avg_doc_len

\* a second add_documents call has completed on a store that was cleared
C4_Witness ==
    /\ adder.pc = "done" /\ adds = 2
    /\ Len(documents) = 1 /\ documents[1].id = "u2"
    /\ splade.n_docs = 1

\* C5: no two chunks of the corpus store have the same id.
C5_UniqueIds ==
    \A i, j \in DOMAIN documents : i # j => documents[i].id # documents[j].id

\* C6: a search on an empty corpus returns the empty list and does not raise,
\* in every mode and for every query, top_k and dense_weight.
C6_EmptyCorpusSearch ==
    (Done /\ documents = <<>>) => (query.result = <<>> /\ ~query.raised)

\* a hybrid search on a corpus that was populated and then cleared, while the
\* ANN oracle still holds the points (its delete failed)
C6_Witness ==
    /\ Done /\ documents = <<>> /\ adds > 0 /\ query.mode = "hybrid"
    /\ qdrant.points # <<>>

InUnit(x) == 0 <= x /\ x <= S

\* C7: every result of a search, in any mode, has score in [0,1]
\* and, when it has a dense_score, dense_score in [0,1].
C7_ScoreBounds ==
    (Done /\ ~query.raised /\ InUnit(query.dense_weight)) =>
        \A i \in DOMAIN query.result :
           /\ InUnit(query.result[i].score)
           /\ query.result[i].dense_score # NoScore => InUnit(query.result[i].dense_score)

\* C8: a hybrid search never propagates the failure of a sub-search to its
\* caller.
C8_HybridNeverRaises ==
    (Done /\ Hybrid(query)) => ~query.raised

\* C9: when the embedding collaborator returns null, a dense search on a
\* non-empty corpus returns [], and a hybrid search returns one result for
\* each id the sparse sub-search found and nothing else (all of them when
\* top_k allows, otherwise top_k of them), each with dense component 0 and
\* fused score = batch-normalised sparse score * (1 - dense_weight), no boost.
C9_NullEmbedding ==
    (Done /\ ~query.raised /\ query.embedding = None /\ documents # <<>>
          /\ query.mode # "sparse") =>
        IF query.mode = "dense" THEN query.result = <<>>
        ELSE LET found == query.sparse_results
                 top == MaxSparse(found)
             IN  /\ Len(query.result) = Min(query.top_k, Cardinality(IdsOf(found)))
                 /\ \A i, j \in DOMAIN query.result :
                       i # j => query.result[i].id # query.result[j].id
                 /\ \A i \in DOMAIN query.result :
                       LET r == query.result[i]
                           s_norm == IF top > 0
                                     THEN ((r.sparse_score \div 100) * S) \div (top \div 100)
                                     ELSE 0
                       IN  /\ r.id \in IdsOf(found)
                           /\ r.dense_score = 0
                           /\ r.score = RoundDiv(s_norm * (S - query.dense_weight), S)

\* a hybrid search whose embedding call returned null and that has results
C9_Witness ==
    /\ Done /\ Hybrid(query) /\ api_key /\ query.embedding = None
    /\ query.result # <<>> /\ query.dense_weight # 7000

\* position of the first chunk with this id in the corpus
FirstIndex(id) ==
    CHOOSE i \in DOMAIN documents :
       documents[i].id = id /\ \A j \in DOMAIN documents : documents[j].id = id => i <= j

\* C10: hybrid results with equal fused scores come in the insertion order of
\* their chunks, whatever the iteration order of the id set.
C10_TiesInInsertionOrder ==
    (Done /\ Hybrid(query) /\ ~query.raised) =>
        \A i, j \in DOMAIN query.result :
           (/\ i < j
            /\ query.result[i].score = query.result[j].score
            /\ query.result[i].id \in Range(DocIds)
            /\ query.result[j].id \in Range(DocIds)
            /\ query.result[i].id # query.result[j].id)
           => FirstIndex(query.result[i].id) < FirstIndex(query.result[j].id)

\* largest sparse score of a result list, 0 for the empty list
TopSparse(found) ==
    LET vals == {MapGet(found, id, "sparse_score", 0) : id \in IdsOf(found)} \cup {0}
    IN  CHOOSE m \in vals : \A v \in vals : v <= m

\* d*w + s*(1-w), plus 0.1*min(d,s) capped at 1.0 iff d > 0 and s > 0,
\* rounded to 4 decimals
FusedOf(d, s, w) ==
    LET base == d * w + s * (S - w)
    IN  RoundDiv(IF d > 0 /\ s > 0
                 THEN Min(base + (Min(d, s) * S) \div 10, S * S)
                 ELSE base, S)

PosOf(res, id) == CHOOSE i \in DOMAIN res : res[i].id = id

\* C12: for chunks A and B with fixed scores, A's dense score higher and A's
\* sparse score lower than B's, a hybrid ranking that has A above B still has
\* A above B when the same lists are fused with a larger dense_weight.
C12_MonotonicWeighting ==
    unit.call = "fuse_again" =>
        LET dr == unit.args.dense_results
            sr == unit.args.sparse_results
        IN  \A ca, cb \in IdsOf(dr) \cap IdsOf(sr) :
               (/\ MapGet(dr, ca, "dense_score", 0) > MapGet(dr, cb, "dense_score", 0)
                /\ MapGet(sr, ca, "sparse_score", 0) < MapGet(sr, cb, "sparse_score", 0)
                /\ PosOf(unit.out.before, ca) < PosOf(unit.out.before, cb))
               => PosOf(unit.out.result, ca) < PosOf(unit.out.result, cb)

\* the lexical score of chunk i of the corpus against the expanded query
RawScore(i) == Score(splade, query.terms, i, documents[i].text).score

\* chunk i has a term of the expanded query: a single word among its tokens,
\* or a phrase inside its lowercased text
SharesTerm(i) ==
    \E k \in DOMAIN query.terms :
       \/ query.terms[k].term \in Range(Tokenize(documents[i].text))
       \/ IsSubstring(query.terms[k].term, Lower(documents[i].text))

\* C13: a sparse search returns exactly top_k of the chunks whose lexical
\* score against the expanded query is > 0 (all of them if there are fewer),
\* none of the chunks left out scores higher than a returned one, the
\* results are in non-increasing raw-score order, and every returned chunk
\* shares a term with the expanded query.
C13_SparseMode ==
    (Done /\ query.mode = "sparse" /\ ~query.raised) =>
        LET res == query.result
            positive == {i \in DOMAIN documents : RawScore(i) > 0}
            at(k) == CHOOSE i \in DOMAIN documents : documents[i].id = res[k].id
            returned == {at(k) : k \in DOMAIN res}
        IN  /\ Len(res) = Min(query.top_k, Cardinality(positive))
            /\ \A k \in DOMAIN res :
                  /\ \E i \in DOMAIN documents : documents[i].id = res[k].id
                  /\ res[k].text = documents[at(k)].text
                  /\ at(k) \in positive
                  /\ SharesTerm(at(k))
            /\ \A k, l \in DOMAIN res : k # l => res[k].id # res[l].id
            /\ \A k, l \in DOMAIN res : k < l => RawScore(at(k)) >= RawScore(at(l))
            /\ \A i \in positive \ returned :
                  \A k \in DOMAIN res : RawScore(i) <= RawScore(at(k))

\* a sparse search over three chunks: one is returned, one scores > 0 but is
\* cut by top_k, one shares no term with the query and scores 0
C13_Witness ==
    /\ Done /\ query.mode = "sparse" /\ Len(documents) = 3
    /\ Len(query.result) = 1
    /\ \E i, j \in DOMAIN documents :
          /\ documents[i].id # query.result[1].id /\ RawScore(i) > 0
          /\ RawScore(i) < RawScore(CHOOSE n \in DOMAIN documents :
                                       documents[n].id = query.result[1].id)
          /\ RawScore(j) = 0 /\ ~SharesTerm(j)

Expanded == unit.call = "_expand_query"

\* C14: _expand_query returns at most 20 weighted terms, for every query and
\* every outcome of the term-suggestion collaborator.
C14_AtMostTwentyTerms ==
    Expanded => Len(unit.out) <= 20

\* the output positions that hold a token of the raw query
OriginalAt == {k \in DOMAIN unit.out :
                  unit.out[k].term \in Range(Tokenize(unit.args.query))}

\* C15: every distinct token of the raw query is in the output of
\* _expand_query with weight 2.0, and the original terms come before every
\* expansion term, for every outcome of the collaborator.
C15_OriginalTermsKept ==
    Expanded =>
        /\ \A t \in Range(Tokenize(unit.args.query)) :
              \E k \in DOMAIN unit.out :
                 unit.out[k].term = t /\ unit.out[k].weight = 2 * S
        /\ \A k \in OriginalAt, l \in DOMAIN unit.out \ OriginalAt : k < l

\* C16: the output of _expand_query never holds the same term twice.
C16_NoDuplicateTerms ==
    Expanded =>
        \A k, l \in DOMAIN unit.out : k # l => unit.out[k].term # unit.out[l].term

\* C17: after a successful expansion the i-th (0-indexed) expansion term of
\* the output has weight 1.0 / (1 + 0.15 * i), where i counts the expansion
\* terms that were added and not the candidates that were skipped.
C17_WeightByAddedRank ==
    (Expanded /\ unit.args.outcome.status = "ok") =>
        \A l \in DOMAIN unit.out \ OriginalAt :
           unit.out[l].weight =
              (20 * S) \div (20 + 3 * Cardinality({m \in DOMAIN unit.out \ OriginalAt : m < l}))

Scored == unit.call = "score"

\* C18: a score call on an index whose avg_doc_len is 0 returns total score 0
\* and does not raise ZeroDivisionError, for every query, every document
\* text and whatever fit calls were made on the object before.
C18_ZeroAverageLengthScoresZero ==
    (Scored /\ unit.index.avg_doc_len[1] = 0) =>
        (~unit.out.raised /\ unit.out.score = 0)

\* C19: after fit(documents, doc_ids) the index (n_docs, doc_lens, doc_freqs,
\* avg_doc_len and the idf table with its vocabulary) is the index of a new
\* SPLADESearch fit on the same arguments, whatever fit calls were made on
\* the object before; and fit called again on the same arguments leaves the
\* index, and so every score, as it is.
C19_FitIsFullRebuild ==
    unit.call = "fit" =>
        /\ unit.index = Fit(NewSplade, unit.args.documents, unit.args.doc_ids)
        /\ Fit(unit.index, unit.args.documents, unit.args.doc_ids) = unit.index

IsPhrase(qt) == Len(Split(qt.term)) > 1

\* weight*2.0 if the phrase is a substring of the lowercased text, else 0
PhraseCredit(qt, doc_text) ==
    IF IsSubstring(qt.term, Lower(doc_text)) THEN qt.weight * 2 ELSE 0

\* C20: in a score call a multi-word query term contributes weight*2.0 when
\* the phrase is a substring of the lowercased document text and 0 otherwise,
\* whatever the index holds for its words: the total is the sum of these
\* contributions and of the scores of the single-word terms.
C20_PhraseExactness ==
    (Scored /\ ~unit.out.raised) =>
        LET qts == unit.args.query_terms
            part == [i \in DOMAIN qts |->
                       IF IsPhrase(qts[i])
                       THEN PhraseCredit(qts[i], unit.args.doc_text)
                       ELSE Score(unit.index, <<qts[i]>>, unit.args.doc_idx + 1,
                                  unit.args.doc_text).score]
        IN  unit.out.score = SumSeq(part)

\* a phrase term scored against a text that holds both words of the phrase
\* with another word between them, on an index that knows both words
C20_Witness ==
    /\ Scored /\ ~unit.out.raised
    /\ Len(unit.args.query_terms) = 1
    /\ IsPhrase(unit.args.query_terms[1])
    /\ ~IsSubstring(unit.args.query_terms[1].term, Lower(unit.args.doc_text))
    /\ Range(Split(unit.args.query_terms[1].term)) \subseteq
          (Range(Tokenize(unit.args.doc_text)) \cap DOMAIN unit.index.idf)
    /\ unit.out.score = 0

Chunking == unit.call \in {"chunk_text", "chunk_by_tokens"}

\* C21: chunk_text and chunk_by_tokens terminate for every text, every
\* chunk_size >= 1 and every overlap >= 0.  The loop runs while
\* start < len(words), so it ends iff every iteration that goes round again
\* has moved start forward.
C21_ChunkingTerminates ==
    [][(Chunking /\ unit.out.pc = "loop" /\ unit'.out.pc = "loop")
          => unit'.out.start > unit.out.start]_vars

ChunkDone == Chunking /\ unit.out.pc = "done"

\* number of words of a chunk text
WordCount(chunk) == Len(Words(chunk))

\* C22: chunk_by_tokens on the text of 500 identical words with chunk_size 100
\* and overlap 20 (given to the call, or to the constructor) returns more than
\* one chunk, every chunk but the last has exactly 100 words, and neighbours
\* share exactly 20 words: the chunk lengths less 20 per neighbour pair add
\* up to the 500 words.  (The result is a function of the arguments, so two
\* calls return the same sequence.)
C22_LongTextChunks ==
    (ChunkDone /\ unit.call = "chunk_by_tokens" /\ unit.args.text = LongText) =>
        LET chunks == unit.out.chunks
            k == Len(chunks)
        IN  /\ k > 1
            /\ \A i \in 1..(k - 1) : WordCount(chunks[i].text) = 100
            /\ SumSeq([i \in 1..k |-> WordCount(chunks[i].text)]) - 20 * (k - 1) = 500

\* the words of the first chunk followed by the words of every later chunk
\* without its first overlap words
RECURSIVE Rebuild(_, _, _)
Rebuild(chunks, overlap, k) ==
    IF k > Len(chunks) THEN <<>>
    ELSE LET w == Words(chunks[k])
         IN  (IF k = 1 THEN w ELSE SubSeq(w, overlap + 1, Len(w)))
                \o Rebuild(chunks, overlap, k + 1)

\* chunks are the windows of chunk_size words over words, chunk k (from 0)
\* starting at word k*(chunk_size - overlap); the last one ends at the last
\* word and has more than overlap words; Rebuild gives back words
SlidingWindows(chunks, words, chunk_size, overlap) ==
    LET n == Len(words)
        last == Len(chunks)
        step == chunk_size - overlap
    IN  /\ last >= 1
        /\ \A k \in 1..last :
              Words(chunks[k]) =
                 SubSeq(words, (k - 1) * step + 1, Min((k - 1) * step + chunk_size, n))
        /\ \A k \in 1..(last - 1) : WordCount(chunks[k]) = chunk_size
        /\ (last - 1) * step + WordCount(chunks[last]) = n
        /\ WordCount(chunks[last]) > overlap
        /\ Rebuild(chunks, overlap, 1) = words

ChunkTextDone ==
    /\ ChunkDone /\ unit.call = "chunk_text"
    /\ unit.args.overlap < unit.args.chunk_size

\* C23 as stated: chunk_text with 0 <= overlap < chunk_size returns the
\* sliding windows when the text has more than chunk_size words, and the
\* whole text as the single chunk when it has at most chunk_size words.
C23_SlidingWindowsAnyText ==
    ChunkTextDone =>
        IF Len(Words(unit.args.text)) <= unit.args.chunk_size
        THEN unit.out.chunks = <<unit.args.text>>
        ELSE SlidingWindows(unit.out.chunks, Words(unit.args.text),
                            unit.args.chunk_size, unit.args.overlap)

\* C23: chunk_text with 0 <= overlap < chunk_size returns the sliding windows
\* when the text has more than chunk_size words, the whole text as the single
\* chunk when it is not empty and has at most chunk_size words, and no chunk
\* for the empty text.
C23_SlidingWindows ==
    ChunkTextDone =>
        IF unit.args.text = <<>> THEN unit.out.chunks = <<>>
        ELSE IF Len(Words(unit.args.text)) <= unit.args.chunk_size
        THEN unit.out.chunks = <<unit.args.text>>
        ELSE SlidingWindows(unit.out.chunks, Words(unit.args.text),
                            unit.args.chunk_size, unit.args.overlap)

\* a text cut into three or more overlapping chunks, the last one shorter
\* than chunk_size
C23_Witness ==
    /\ ChunkTextDone
    /\ unit.args.overlap > 0
    /\ Len(unit.out.chunks) >= 3
    /\ WordCount(unit.out.chunks[Len(unit.out.chunks)]) < unit.args.chunk_size

\* get_stats(): the entries that describe the corpus and the lexical index
GetStats ==
    [vectors_count |-> Len(documents),
     with_embeddings |-> Cardinality({i \in DOMAIN documents : documents[i].embedding # None}),
     splade_indexed |-> splade_fitted,
     splade_vocab_size |-> IF splade_fitted THEN Cardinality(DOMAIN splade.idf) ELSE 0]

\* the distinct tokens of the chunks of the corpus store
CorpusVocabulary == UNION {Range(Tokenize(documents[i].text)) : i \in DOMAIN documents}

\* C24: at any point of any sequence of add_documents and clear calls,
\* get_stats reports vectors_count = number of chunks, splade_indexed true
\* exactly when the corpus is not empty, and splade_vocab_size = number of
\* distinct tokens of the current chunks (0 when the index is not built).
C24_StatsReportCurrentState ==
    /\ GetStats.vectors_count = Len(documents)
    /\ GetStats.splade_indexed <=> (documents # <<>>)
    /\ GetStats.splade_vocab_size = Cardinality(CorpusVocabulary)

\* two chunks that share a token are stored, after an add_documents call
\* that followed another one
C24_Witness ==
    /\ adds = 2 /\ adder.pc = "done"
    /\ GetStats.vectors_count = 2
    /\ GetStats.splade_vocab_size = 3

\* C25: when add_documents returns, it returns one id per input text, in
\* input order, and each returned id is the id of a chunk of the corpus
\* store whose text is the corresponding input text, whatever the lengths of
\* metadatas, ids and the embedding batch.
C25_AddReturnsStoredIds ==
    adder.pc = "done" =>
        /\ Len(adder.returned) = Len(adder.texts)
        /\ \A i \in DOMAIN adder.returned :
              \E j \in DOMAIN documents :
                 /\ documents[j].id = adder.returned[i]
                 /\ i \in DOMAIN adder.texts
                 /\ documents[j].text = adder.texts[i]

\* C26: a cancelled add_documents has written nothing: every step that
\* takes the call to its suspension point or cancels it there leaves the
\* corpus store, the lexical index and the ANN index as they are, so all the
\* writes of a call happen in the one step after the embedding call returns.
C26_CancelledAddWritesNothing ==
    [][(adder' # adder /\ adder'.pc \in {"embed", "cancelled"})
          => UNCHANGED <<documents, splade, splade_fitted, qdrant>>]_vars

\* a call was cancelled on a store that holds chunks
C26_Witness ==
    /\ adder.pc = "cancelled" /\ adder.texts # <<>>
    /\ documents # <<>> /\ qdrant.points # <<>>


\* a direct search_dense call that did not return from the primary path: the
\* oracle is not used, its collection is missing, or its query failed
DenseFellBack ==
    /\ unit.call = "search_dense"
    /\ \/ ~unit.args.use_q
       \/ ~unit.args.qd.exists
       \/ unit.args.oracle.status = "fail"

NonIncreasing(results) ==
    \A i \in DOMAIN results : \A j \in DOMAIN results :
        i < j => results[i].dense_score >= results[j].dense_score

\* C27: when the ANN oracle is unavailable or its query fails at any point,
\* also part-way through reading its response, dense search returns locally
\* cached chunks only: each chunk at most once, no chunk without a cached
\* embedding, scored by normalized cosine similarity in non-increasing
\* order, and at most top_k of them.
C27_FallbackReturnsCachedChunks ==
    DenseFellBack =>
        LET results == unit.out
            docs == unit.args.docs
        IN  /\ Len(results) <= unit.args.top_k
            /\ NonIncreasing(results)
            /\ \A i \in DOMAIN results : \A j \in DOMAIN results :
                  i # j => results[i].id # results[j].id
            /\ \A i \in DOMAIN results :
                  \E n \in DOMAIN docs :
                     /\ docs[n].id = results[i].id
                     /\ docs[n].embedding # None
                     /\ results[i].dense_score =
                           NormalizeDenseScore(Cosine(unit.args.query_embedding,
                                                      docs[n].embedding))

\* ids of the chunks of the Corpus Store that carry an embedding
EmbeddedIds == {documents[i].id : i \in {n \in DOMAIN documents :
                                            documents[n].embedding # None}}

\* ids of the points the collection of the ANN oracle holds
OracleIds == IF qdrant.exists THEN {qdrant.points[i].id : i \in DOMAIN qdrant.points}
             ELSE {}

\* C28: after any sequence of add_documents and clear, whatever calls of the
\* ANN oracle failed (upsert, delete_collection, create_collection), the
\* chunk ids the oracle holds are the ids of the Corpus Store chunks that
\* have an embedding; so the oracle holds nothing that was added before the
\* last clear.
C28_OracleMatchesCorpusStore ==
    use_qdrant => OracleIds = EmbeddedIds

\* the native scores of a response, as the dense scores of the results
\* read from it
C29_Natives == [i \in DOMAIN unit.args |-> unit.args[i].score]

\* C29: dense results are in non-increasing order of dense_score, on the
\* primary path (the response of the ANN oracle, best native score first)
\* and on the fallback path; the normalization of native scores in [-1, 1]
\* to [0, 1] preserves their order.
C29_DenseResultsOrdered ==
    /\ unit.call = "search_dense" => NonIncreasing(unit.out)
    /\ unit.call = "qdrant_response" =>
          /\ NonIncreasing(unit.out)
          /\ \A i \in DOMAIN unit.out : \A j \in DOMAIN unit.out :
                C29_Natives[i] > C29_Natives[j] =>
                   unit.out[i].dense_score >= unit.out[j].dense_score

\* C30: once DELETE /clear has returned, GET /papers returns no paper,
\* whatever POST /papers/save calls came before the clear: clearing deletes
\* all stored papers, those the metadata store kept included.
C30_ClearDeletesAllPapers ==
    (unit.call = "get" /\ unit.cleared) => unit.out = <<>>
====
